---- MODULE Spec2Model ----
(***************************************************************************)
(* SQLBigQueryDataSource (src/sql_bigquery.py): a facade over a SQLAlchemy *)
(* engine and MetaData bound to one BigQuery project and dataset.          *)
(* The warehouse, the engine's connections, the MetaData catalog, the      *)
(* random source and the two output channels are the state; one call is    *)
(* in progress at a time (the facade is synchronous), and each call is cut *)
(* at the points where it talks to the warehouse or sleeps.                *)
(***************************************************************************)
EXTENDS Integers, Sequences, FiniteSets, TLC

\* ------------------------------------------------------------ bounds
\* Significand width of the scaled-down binary floating point format in which
\* the create delay is computed (53 in CPython's float).
SignificandBits == 3
\* Longest schema mapping a caller passes.
MaxSchemaLen == 2

\* ------------------------------------------------------------ constants
\* A retry cap that allows one attempt more.
SixRetries == 5 + 1

\* max_retries of create_table (line 93) and of delete_table (line 124)
max_retries == 5
delete_max_retries == 5

RATE_LIMIT == "Job exceeded rate limits"
QUOTA == "exceeded quota for table update operations"

\* ------------------------------------------------------------ inputs
TableOrder == <<"t", "u">>
TableIds == {TableOrder[i] : i \in DOMAIN TableOrder}
ColumnNames == {"a", "b"}
PartitionFields == {"none", "ts"}
Queries == {"SELECT 1 AS x"}

\* An exception of the client library, by the marker phrases its message holds.
Errors == {[phrases |-> {RATE_LIMIT}], [phrases |-> {QUOTA}], [phrases |-> {}]}

\* A schema mapping: unique column names in iteration order.
Injective(s) == \A i, j \in DOMAIN s : s[i] = s[j] => i = j
SeqsUpTo(S, n) == UNION {[1..k -> S] : k \in 0..n}
Schemas == {s \in SeqsUpTo(ColumnNames, MaxSchemaLen) : Injective(s)}
TableDefs == {s \in SeqsUpTo(ColumnNames, Cardinality(ColumnNames)) : Injective(s)}

\* Values of a row: what the DB-API cursor yields, and what a frame stores.
Integer(n) == [t |-> "int", v |-> n]
Real(n) == [t |-> "float", v |-> n]
Null == [t |-> "None", v |-> 0]
NaN == [t |-> "nan", v |-> 0]

\* Result sets the warehouse answers a query with: column names and rows.
ResultSets ==
    { [keys |-> <<"x">>, rows |-> << <<Integer(1)>> >>],
      [keys |-> <<"x", "y">>, rows |-> << <<Integer(2), Integer(1)>>, <<Integer(1), Null>> >>],
      [keys |-> <<"x", "x">>, rows |-> << <<Integer(1), Integer(2)>> >>],
      [keys |-> <<"x">>, rows |-> << <<Null>> >>],
      [keys |-> <<"x">>, rows |-> << >>] }
NoResultSet == [keys |-> << >>, rows |-> << >>]

VARIABLES
    metadata,    \* self.metadata.tables: registered table name -> its column list
    warehouse,   \* the remote dataset: existing table name -> its column list
    conns,       \* connections of self.engine that are open
    pc,          \* position of the call in progress, "idle" between calls
    call,        \* the call in progress or the last one: operation and arguments
    try_count,   \* try_count / retry_count of the retry loop
    trace,       \* outcome of each attempt of the call: "ok" or the error raised
    executes,    \* connection.execute calls made by the call
    sleeps,      \* arguments of the time.sleep calls made by the call, in ticks
    stdout,      \* lines the call printed
    logs,        \* logger.debug lines the call wrote
    request,     \* table definitions of the call's last create_all request
    rng,         \* state of the random module's generator
    fetched,     \* result.keys() and result.fetchall() of the call's query
    twin,        \* self.metadata.tables of a facade that is given the same calls
                 \* with the other time_partitioning_field in each create_table
    result       \* how the last call ended

vars == <<metadata, warehouse, conns, pc, call, try_count, trace, executes,
          sleeps, stdout, logs, request, rng, fetched, twin, result>>

\* ------------------------------------------------------------ values
RECURSIVE Pow2(_)
Pow2(n) == IF n = 0 THEN 1 ELSE 2 * Pow2(n - 1)

\* f"{self.dataset_id}.{table_id}"
table_name(table_id) == <<"d", table_id>>
TableNames == {table_name(t) : t \in TableIds}

NoCall == [op |-> "none", table |-> "none", schema |-> << >>, tpf |-> "none",
           query |-> "none"]
NoResult == [kind |-> "none"]
NoTables == [n \in {} |-> << >>]
Return(v) == [kind |-> "return", value |-> v]
Raise(e) == [kind |-> "raise", err |-> e]
Bool(b) == [type |-> "bool", b |-> b]
None == [type |-> "None"]
TableHandle(name, cols) == [type |-> "Table", name |-> name, columns |-> cols]

Range(s) == {s[i] : i \in DOMAIN s}
Without(f, n) == [m \in DOMAIN f \ {n} |-> f[m]]

\* ------------------------------------------------------------ SQLAlchemy
\* Table(table_name, self.metadata): MetaData holds one Table per name; a name
\* already registered gives back the registered Table, columns and all.
Table(md, name) == IF name \in DOMAIN md THEN md ELSE md @@ (name :> << >>)

\* new_table.append_column(Column(column_name, column_type)): a new name goes to
\* the end, a name the table already has keeps its position.  A column is
\* modelled by its name; its type travels with it and is never inspected.
append_column(cols, c) == IF c \in Range(cols) THEN cols ELSE Append(cols, c)

RECURSIVE append_columns(_, _)
append_columns(cols, schema) ==
    IF schema = << >> THEN cols
    ELSE append_columns(append_column(cols, Head(schema)), Tail(schema))

\* lines 87-90 of create_table on the catalog
DefineTable(md, name, schema) ==
    LET md1 == Table(md, name)
    IN [md1 EXCEPT ![name] = append_columns(md1[name], schema)]

\* The table with lines 111-112 live: a DateTime column for the partition field.
PartitionedTable(md, name, schema, time_partitioning_field) ==
    IF time_partitioning_field = "none"
    THEN DefineTable(md, name, schema)
    ELSE DefineTable(md, name, Append(schema, time_partitioning_field))

\* lines 87-90 with time_partitioning_field in scope: nothing reads it (lines
\* 111-112 are comments behind the return)
new_table(md, name, schema, time_partitioning_field) ==
    DefineTable(md, name, schema)

\* the other value of the argument
OtherField(f) == IF f = "none" THEN "ts" ELSE "none"

\* A request for the table of the call alone.
OnlyCalledTable(md) ==
    [n \in DOMAIN md \cap {table_name(call.table)} |-> md[n]]

\* self.metadata.create_all(): the request covers every registered table; with
\* checkfirst (the default) CREATE TABLE is issued for those the dataset lacks.
CreateAllRequest(md) == md
Missing(md, wh) == DOMAIN md \ DOMAIN wh
\* A create_all whose CREATE TABLE statements never take effect.
CreatesNothing(md, wh, names) == wh

CreateTables(md, wh, names) == [n \in DOMAIN wh \cup names |->
                                   IF n \in DOMAIN wh THEN wh[n] ELSE md[n]]

\* ------------------------------------------------------------ backoff
TicksPerSecond == 10 * Pow2(SignificandBits)

\* random.uniform(0, 1) = 0 + (1 - 0) * random.random(): a multiple of
\* 2^-SignificandBits in [0, 1), given by its numerator.  The module-level
\* generator is a deterministic stream read from a position the seed decides:
\* the stream holds the least, the middle and the greatest value of random().
RandomStream == <<0, Pow2(SignificandBits - 1), Pow2(SignificandBits) - 1>>
uniform(position) == RandomStream[position]
Advance(position) == (position % Len(RandomStream)) + 1

RECURSIVE FloorLog2(_)
FloorLog2(x) == IF x < 2 THEN 0 ELSE 1 + FloorLog2(x \div 2)

\* Round x (in units of 2^-SignificandBits) to the nearest float, ties to even.
RoundToFloat(x) ==
    LET e == FloorLog2(x)
        ulp == IF e >= SignificandBits - 1
               THEN Pow2(e - (SignificandBits - 1)) ELSE 1
        q == x \div ulp
        r == x % ulp
    IN IF 2 * r < ulp THEN q * ulp
       ELSE IF 2 * r > ulp THEN (q + 1) * ulp
       ELSE IF q % 2 = 0 THEN q * ulp ELSE (q + 1) * ulp

\* A backoff that grows by a second per retry instead of doubling.
CreateDelayLinear(n, u) ==
    10 * RoundToFloat((n + 1) * Pow2(SignificandBits) + u)

\* delay = (2**try_count) + random.uniform(0, 1), in ticks
CreateDelay(n, u) ==
    10 * RoundToFloat(Pow2(n) * Pow2(SignificandBits) + u)

\* The delete backoff with the create backoff's scale.
DeleteDelayUnscaled(n) == Pow2(n) * TicksPerSecond

\* retry_delay = (2**retry_count) * 0.1, in ticks
DeleteDelay(n) == Pow2(n) * (TicksPerSecond \div 10)

\* A handler that retries on every error.
RetryAnyError(e) == TRUE

\* A counter that stays where it is.
Stuck(n) == n

\* line 106: try_count += 1, line 138: retry_count += 1
Increment(n) == n + 1

\* One transient class shared by both retry operations.
SharedTransient(e) == RATE_LIMIT \in e.phrases \/ QUOTA \in e.phrases

\* "Job exceeded rate limits" in str(e)
CreateTransient(e) == RATE_LIMIT \in e.phrases
\* "exceeded quota for table update operations" in str(e)
DeleteTransient(e) == QUOTA \in e.phrases

\* A with-block that keeps the connection open.
ReleaseLeak(c) == c

\* the with-block's exit: the connection goes back
Release(c) == c - 1

\* outcome of one attempt
Succeeded == [status |-> "ok", err |-> [phrases |-> {}]]
Failed(e) == [status |-> "error", err |-> e]

\* ------------------------------------------------------------ initial state
\* Datasets a facade is constructed against.
InitialDatasets ==
    { NoTables,
      (table_name("t") :> <<"b", "a">>) }

\* __init__: an engine with no open connection and an empty MetaData.  The
\* dataset holds whatever tables exist when the facade is constructed.
Init ==
    /\ metadata = NoTables
    /\ twin = NoTables
    /\ fetched = NoResultSet
    /\ warehouse \in InitialDatasets
    /\ rng \in DOMAIN RandomStream
    /\ conns = 0
    /\ pc = "idle"
    /\ call = NoCall
    /\ try_count = 0
    /\ trace = << >>
    /\ executes = 0
    /\ sleeps = << >>
    /\ stdout = << >>
    /\ logs = 0
    /\ request = NoTables
    /\ result = NoResult

\* A call starts with nothing observed yet.
Enter(op, table_id, schema, tpf, query) ==
    /\ pc = "idle"
    /\ call' = [op |-> op, table |-> table_id, schema |-> schema, tpf |-> tpf,
                query |-> query]
    /\ try_count' = 0
    /\ trace' = << >>
    /\ executes' = 0
    /\ sleeps' = << >>
    /\ stdout' = << >>
    /\ logs' = 0
    /\ request' = NoTables
    /\ fetched' = NoResultSet
    /\ UNCHANGED rng

\* ------------------------------------------------------------ create_table
\* lines 87-93: register the definition, enter the retry loop
create_table(table_id, schema, time_partitioning_field) ==
    /\ Enter("create_table", table_id, schema, time_partitioning_field, "none")
    /\ metadata' = new_table(metadata, table_name(table_id), schema,
                             time_partitioning_field)
    /\ twin' = new_table(twin, table_name(table_id), schema,
                         OtherField(time_partitioning_field))
    /\ pc' = "create_all"
    /\ result' = NoResult
    /\ UNCHANGED <<warehouse, conns>>

\* lines 96-98: create_all succeeds
create_all_ok ==
    /\ pc = "create_all"
    /\ request' = CreateAllRequest(metadata)
    /\ warehouse' = CreateTables(metadata, warehouse, Missing(metadata, warehouse))
    /\ trace' = Append(trace, Succeeded)
    /\ stdout' = Append(stdout, <<"created", table_name(call.table)>>)
    /\ result' = Return(Bool(TRUE))
    /\ pc' = "idle"
    /\ UNCHANGED <<rng, fetched, twin, metadata, conns, call, try_count, executes, sleeps, logs>>

\* The tables create_all had created when it failed: it checks which tables
\* exist, then creates the missing ones in name order, and stops at the failure.
Position(name) == CHOOSE i \in DOMAIN TableOrder : TableOrder[i] = name[2]
CreatedBeforeFailure(names) ==
    {S \in SUBSET names :
        /\ S # names \/ names = {}
        /\ \A n \in S, m \in names \ S : Position(n) < Position(m)}

\* lines 99-108: create_all raises e
create_all_fail(e) ==
    /\ pc = "create_all"
    /\ request' = CreateAllRequest(metadata)
    /\ \E created \in CreatedBeforeFailure(Missing(metadata, warehouse)) :
          warehouse' = CreateTables(metadata, warehouse, created)
    /\ trace' = Append(trace, Failed(e))
    /\ IF CreateTransient(e)
       THEN /\ logs' = logs + 1
            /\ pc' = "create_sleep"
            /\ UNCHANGED result
       ELSE /\ result' = Raise(e)
            /\ pc' = "idle"
            /\ UNCHANGED logs
    /\ UNCHANGED <<rng, fetched, twin, metadata, conns, call, try_count, executes, sleeps, stdout>>

\* lines 101, 105-106, then the loop test of line 94 and line 109
create_sleep ==
    /\ pc = "create_sleep"
    /\ sleeps' = Append(sleeps, CreateDelay(try_count, uniform(rng)))
    /\ rng' = Advance(rng)
    /\ try_count' = Increment(try_count)
    /\ IF try_count + 1 < max_retries
       THEN /\ pc' = "create_all"
            /\ UNCHANGED result
       ELSE /\ result' = Return(Bool(FALSE))
            /\ pc' = "idle"
    /\ UNCHANGED <<fetched, twin, metadata, warehouse, conns, call, trace, executes,
                   stdout, logs, request>>

\* ------------------------------------------------------------ delete_table
\* lines 120-124: DROP TABLE IF EXISTS, enter the retry loop
delete_table(table_id) ==
    /\ Enter("delete_table", table_id, << >>, "none", "none")
    /\ pc' = "drop_connect"
    /\ result' = NoResult
    /\ UNCHANGED <<twin, metadata, warehouse, conns>>

\* line 127: self.engine.connect() gives a connection
drop_connect_ok ==
    /\ pc = "drop_connect"
    /\ conns' = conns + 1
    /\ pc' = "drop_execute"
    /\ UNCHANGED <<rng, fetched, twin, metadata, warehouse, call, try_count, trace, executes, sleeps,
                   stdout, logs, request, result>>

\* lines 131-140: the except clause on error e
DropHandle(e) ==
    /\ trace' = Append(trace, Failed(e))
    /\ IF DeleteTransient(e)
       THEN /\ logs' = logs + 1
            /\ pc' = "drop_sleep"
            /\ UNCHANGED result
       ELSE /\ result' = Raise(e)
            /\ pc' = "idle"
            /\ UNCHANGED logs

\* line 127: self.engine.connect() raises e
drop_connect_fail(e) ==
    /\ pc = "drop_connect"
    /\ DropHandle(e)
    /\ UNCHANGED <<rng, fetched, twin, metadata, warehouse, conns, call, try_count, executes, sleeps,
                   stdout, request>>

\* lines 128-130: the statement runs, the connection is released, the call returns
drop_execute_ok ==
    /\ pc = "drop_execute"
    /\ executes' = executes + 1
    /\ warehouse' = Without(warehouse, table_name(call.table))
    /\ conns' = Release(conns)
    /\ trace' = Append(trace, Succeeded)
    /\ stdout' = Append(stdout, <<"deleted", table_name(call.table)>>)
    /\ result' = Return(None)
    /\ pc' = "idle"
    /\ UNCHANGED <<rng, fetched, twin, metadata, call, try_count, sleeps, logs, request>>

\* line 128 raises e: the with-block releases the connection, then lines 131-140
drop_execute_fail(e) ==
    /\ pc = "drop_execute"
    /\ executes' = executes + 1
    /\ conns' = Release(conns)
    /\ DropHandle(e)
    /\ UNCHANGED <<rng, fetched, twin, metadata, warehouse, call, try_count, sleeps, stdout, request>>

\* Giving up the way create_table does, with False.
GiveUpFalse == Return(Bool(FALSE))

\* line 141 is the last of delete_table: the call returns None
DeleteGiveUp == Return(None)

\* lines 133, 137-138, then the loop test of line 125 and line 141
drop_sleep ==
    /\ pc = "drop_sleep"
    /\ sleeps' = Append(sleeps, DeleteDelay(try_count))
    /\ try_count' = Increment(try_count)
    /\ IF try_count + 1 < delete_max_retries
       THEN /\ pc' = "drop_connect"
            /\ UNCHANGED <<result, logs>>
       ELSE /\ logs' = logs + 1
            /\ result' = DeleteGiveUp
            /\ pc' = "idle"
    /\ UNCHANGED <<rng, fetched, twin, metadata, warehouse, conns, call, trace, executes, stdout,
                   request>>

\* ------------------------------------------------------------ execute_query
\* line 52, entered
execute_query(query) ==
    /\ Enter("execute_query", "none", << >>, "none", query)
    /\ pc' = "query_connect"
    /\ result' = NoResult
    /\ UNCHANGED <<twin, metadata, warehouse, conns>>

\* line 52: self.engine.connect() gives a connection
query_connect_ok ==
    /\ pc = "query_connect"
    /\ conns' = conns + 1
    /\ pc' = "query_execute"
    /\ UNCHANGED <<rng, fetched, twin, metadata, warehouse, call, try_count, trace, executes, sleeps,
                   stdout, logs, request, result>>

\* A handler that goes back to ask for a connection again.
QueryFailRetry(e) ==
    /\ trace' = Append(trace, Failed(e))
    /\ pc' = "query_connect"
    /\ UNCHANGED result

\* lines 52-55 hold no except clause: e leaves execute_query
QueryFail(e) ==
    /\ trace' = Append(trace, Failed(e))
    /\ result' = Raise(e)
    /\ pc' = "idle"

\* line 52: self.engine.connect() raises e
query_connect_fail(e) ==
    /\ pc = "query_connect"
    /\ QueryFail(e)
    /\ UNCHANGED <<rng, fetched, twin, metadata, warehouse, conns, call, try_count, executes, sleeps,
                   stdout, logs, request>>

\* pandas infers each column's type from its values: a column that holds numbers
\* and NULLs becomes float64, its integers floats and its NULLs NaN; any other
\* column keeps its values.
ColumnValues(rows, j) == {rows[i][j] : i \in DOMAIN rows}
Inferred(rows, j, x) ==
    IF Null \in ColumnValues(rows, j) /\ ColumnValues(rows, j) # {Null}
    THEN (IF x = Null THEN NaN ELSE Real(x.v))
    ELSE x
Frame(rows, keys) ==
    [type |-> "DataFrame", columns |-> keys,
     rows |-> [i \in DOMAIN rows |->
                 [j \in DOMAIN rows[i] |-> Inferred(rows, j, rows[i][j])]]]

\* A frame built from the first row alone.
FirstRowOnly(rows, keys) ==
    Frame(IF rows = << >> THEN rows ELSE <<Head(rows)>>, keys)

\* pd.DataFrame(result.fetchall(), columns=result.keys())
DataFrame(rows, keys) == Frame(rows, keys)

\* lines 53-55: the rows are read into a frame, the connection is released
query_execute_ok(rs) ==
    /\ pc = "query_execute"
    /\ executes' = executes + 1
    /\ fetched' = rs
    /\ conns' = Release(conns)
    /\ trace' = Append(trace, Succeeded)
    /\ result' = Return(DataFrame(rs.rows, rs.keys))
    /\ pc' = "idle"
    /\ UNCHANGED <<rng, twin, metadata, warehouse, call, try_count, sleeps, stdout, logs,
                   request>>

\* line 53 or 54 raises e: the with-block releases the connection, e leaves
query_execute_fail(e) ==
    /\ pc = "query_execute"
    /\ executes' = executes + 1
    /\ conns' = Release(conns)
    /\ QueryFail(e)
    /\ UNCHANGED <<rng, fetched, twin, metadata, warehouse, call, try_count, sleeps, stdout, logs,
                   request>>

\* ------------------------------------------------------------ get_table
\* lines 67-69, 76 for a name self.metadata already holds: Table() gives back
\* the registered Table and reflects nothing.
get_table_registered(table_id) ==
    /\ Enter("get_table", table_id, << >>, "none", "none")
    /\ table_name(table_id) \in DOMAIN metadata
    /\ result' = Return(TableHandle(table_name(table_id),
                                    metadata[table_name(table_id)]))
    /\ pc' = "idle"
    /\ UNCHANGED <<twin, metadata, warehouse, conns>>

\* lines 67-69 for a name self.metadata does not hold: reflection starts
get_table(table_id) ==
    /\ Enter("get_table", table_id, << >>, "none", "none")
    /\ table_name(table_id) \notin DOMAIN metadata
    /\ pc' = "reflect"
    /\ result' = NoResult
    /\ UNCHANGED <<twin, metadata, warehouse, conns>>

\* line 69 succeeds: the reflected Table is registered and returned
reflect_ok ==
    /\ pc = "reflect"
    /\ table_name(call.table) \in DOMAIN warehouse
    /\ metadata' = metadata @@
                     (table_name(call.table) :> warehouse[table_name(call.table)])
    /\ twin' = twin @@
                     (table_name(call.table) :> warehouse[table_name(call.table)])
    /\ trace' = Append(trace, Succeeded)
    /\ result' = Return(TableHandle(table_name(call.table),
                                    warehouse[table_name(call.table)]))
    /\ pc' = "idle"
    /\ UNCHANGED <<rng, fetched, warehouse, conns, call, try_count, executes, sleeps,
                   stdout, logs, request>>

\* line 69 raises e (the table is missing, or the request failed): lines 70-76
reflect_fail(e) ==
    /\ pc = "reflect"
    /\ trace' = Append(trace, Failed(e))
    /\ logs' = logs + 2
    /\ result' = Return(None)
    /\ pc' = "idle"
    /\ UNCHANGED <<rng, fetched, twin, metadata, warehouse, conns, call, try_count, executes, sleeps,
                   stdout, request>>

\* ------------------------------------------------------------ specification
Next ==
    \/ \E t \in TableIds, s \in Schemas, f \in PartitionFields : create_table(t, s, f)
    \/ create_all_ok
    \/ \E e \in Errors : create_all_fail(e)
    \/ create_sleep
    \/ \E t \in TableIds : delete_table(t)
    \/ drop_connect_ok
    \/ \E e \in Errors : drop_connect_fail(e)
    \/ drop_execute_ok
    \/ \E e \in Errors : drop_execute_fail(e)
    \/ drop_sleep
    \/ \E q \in Queries : execute_query(q)
    \/ query_connect_ok
    \/ \E e \in Errors : query_connect_fail(e)
    \/ \E rs \in ResultSets : query_execute_ok(rs)
    \/ \E e \in Errors : query_execute_fail(e)
    \/ \E t \in TableIds : get_table_registered(t)
    \/ \E t \in TableIds : get_table(t)
    \/ reflect_ok
    \/ \E e \in Errors : reflect_fail(e)

Spec == Init /\ [][Next]_vars

\* The steps inside a create_table or delete_table call: a backend call that
\* returns or raises, and a sleep that returns.
RetryStep ==
    \/ create_all_ok
    \/ \E e \in Errors : create_all_fail(e)
    \/ create_sleep
    \/ drop_connect_ok
    \/ \E e \in Errors : drop_connect_fail(e)
    \/ drop_execute_ok
    \/ \E e \in Errors : drop_execute_fail(e)
    \/ drop_sleep

\* Every backend call and every sleep of a retry operation returns.
FairSpec == Spec /\ WF_vars(RetryStep)

\* ------------------------------------------------------------ properties
Returned(op) == pc = "idle" /\ call.op = op /\ result.kind # "none"
InCall(op) == call.op = op

IsError(o) == o.status = "error"
Carries(o, phrase) == IsError(o) /\ phrase \in o.err.phrases
AllCarry(phrase) == \A i \in DOMAIN trace : Carries(trace[i], phrase)
NonDecreasing(s) == \A i, j \in DOMAIN s : i <= j => s[i] <= s[j]

\* Sleeps made so far: one after each failed attempt, the last one pending
\* while the call is about to sleep.
SleepsFollowFailures ==
    Len(sleeps) = Len(trace) - (IF pc \in {"create_sleep", "drop_sleep"} THEN 1 ELSE 0)

\* C1 as stated: when every create_all request fails with a rate-limit error,
\* create_table makes exactly 5 attempts, sleeps once after each with a delay in
\* [2^n, 2^n + 1) seconds for n = 0..4 in that order, the delays never
\* decreasing, and then returns False.
C1_HalfOpenDelays ==
    (InCall("create_table") /\ AllCarry(RATE_LIMIT)) =>
        /\ Len(trace) <= 5
        /\ SleepsFollowFailures
        /\ \A k \in DOMAIN sleeps :
              /\ Pow2(k - 1) * TicksPerSecond <= sleeps[k]
              /\ sleeps[k] < (Pow2(k - 1) + 1) * TicksPerSecond
        /\ NonDecreasing(sleeps)
        /\ pc = "idle" <=> Len(trace) = 5 /\ Len(sleeps) = 5
        /\ pc = "idle" => result = Return(Bool(FALSE))

\* C1, amended: the same, with each delay in the closed interval
\* [2^n, 2^n + 1] seconds: the float sum 2^n + uniform(0, 1) rounds up to
\* 2^n + 1 for the greatest values of the random draw.
C1_CreateExhaustion ==
    (InCall("create_table") /\ AllCarry(RATE_LIMIT)) =>
        /\ Len(trace) <= 5
        /\ SleepsFollowFailures
        /\ \A k \in DOMAIN sleeps :
              /\ Pow2(k - 1) * TicksPerSecond <= sleeps[k]
              /\ sleeps[k] <= (Pow2(k - 1) + 1) * TicksPerSecond
        /\ NonDecreasing(sleeps)
        /\ pc = "idle" <=> Len(trace) = 5 /\ Len(sleeps) = 5
        /\ pc = "idle" => result = Return(Bool(FALSE))

C1_Witness ==
    /\ Returned("create_table")
    /\ Len(trace) = 5 /\ AllCarry(RATE_LIMIT)
    /\ result = Return(Bool(FALSE))
    /\ \E k \in DOMAIN sleeps :
          /\ Pow2(k - 1) * TicksPerSecond < sleeps[k]
          /\ sleeps[k] < (Pow2(k - 1) + 1) * TicksPerSecond

\* C2: when every drop attempt fails with a quota error, delete_table makes
\* exactly 5 attempts, sleeps once after each for exactly 0.1 * 2^n seconds,
\* n = 0..4 in that order, and then returns None without raising.
C2_DeleteExhaustion ==
    (InCall("delete_table") /\ AllCarry(QUOTA)) =>
        /\ Len(trace) <= 5
        /\ SleepsFollowFailures
        /\ \A k \in DOMAIN sleeps : 10 * sleeps[k] = Pow2(k - 1) * TicksPerSecond
        /\ pc = "idle" <=> Len(trace) = 5 /\ Len(sleeps) = 5
        /\ pc = "idle" => result = Return(None)

C2_Witness ==
    /\ Returned("delete_table")
    /\ Len(trace) = 5 /\ AllCarry(QUOTA)
    /\ Len(sleeps) = 5
    /\ executes = 5

\* C3: in create_table and delete_table an error without the operation's
\* transient phrase is re-raised unchanged at the attempt where it occurs: it
\* is the last attempt, no sleep follows it, and the call has ended raising it.
FatalFor(op, o) ==
    \/ op = "create_table" /\ IsError(o) /\ RATE_LIMIT \notin o.err.phrases
    \/ op = "delete_table" /\ IsError(o) /\ QUOTA \notin o.err.phrases

C3_FatalReraised ==
    \A i \in DOMAIN trace :
        FatalFor(call.op, trace[i]) =>
            /\ i = Len(trace)
            /\ pc = "idle"
            /\ result = Raise(trace[i].err)
            /\ Len(sleeps) = i - 1

C3_Witness ==
    /\ Returned("delete_table")
    /\ Len(trace) = 1
    /\ FatalFor("delete_table", trace[1])
    /\ trace[1].err.phrases = {RATE_LIMIT}
    /\ sleeps = << >>

\* C4 as stated: get_table never raises; on any fault of the introspection it
\* returns None after exactly one introspection attempt and no sleep; it returns
\* a table handle only when introspection succeeded.
C4_HandleOnlyFromIntrospection ==
    Returned("get_table") =>
        /\ result.kind = "return"
        /\ sleeps = << >>
        /\ Len(trace) = 1
        /\ IsError(trace[1]) => result = Return(None)
        /\ result.value.type = "Table" => trace[1] = Succeeded

\* C5: execute_query never retries: a failure, whatever phrase it carries, ends
\* the call at once with that error raised, after one attempt (one connection
\* asked for, at most one execute on it) and no sleep.
C5_QueryNeverRetries ==
    InCall("execute_query") =>
        /\ Len(trace) <= 1
        /\ executes <= 1
        /\ sleeps = << >>
        /\ \A i \in DOMAIN trace :
              IsError(trace[i]) => pc = "idle" /\ result = Raise(trace[i].err)
        /\ pc = "idle" => Len(trace) = 1

C5_Witness ==
    /\ Returned("execute_query")
    /\ executes = 1
    /\ result = Raise([phrases |-> {RATE_LIMIT}])

\* C6: every connection acquired is released by the time a call returns or
\* raises: none is open between calls, at most one during a call.
C6_ConnectionsReleased ==
    /\ conns \in {0, 1}
    /\ pc = "idle" => conns = 0

C6_Witness ==
    /\ Returned("delete_table")
    /\ result.kind = "raise"
    /\ executes = 2
    /\ conns = 0

\* C7: create_table returns True iff an attempt succeeded after k < 5
\* rate-limit failures, having slept k times, the success being its last
\* attempt; returns False iff 5 attempts in a row failed with the rate-limit
\* phrase; raises iff an error without the phrase came before either.
RateFailuresBefore(n) == \A i \in 1..(n - 1) : Carries(trace[i], RATE_LIMIT)

C7_CreateOutcomes ==
    Returned("create_table") =>
        LET n == Len(trace) IN
        /\ n >= 1 /\ RateFailuresBefore(n)
        /\ result = Return(Bool(TRUE)) <=> trace[n] = Succeeded
        /\ result = Return(Bool(TRUE)) => n - 1 < 5 /\ Len(sleeps) = n - 1
        /\ result = Return(Bool(FALSE)) <=> n = 5 /\ Carries(trace[n], RATE_LIMIT)
        /\ result.kind = "raise" <=>
              IsError(trace[n]) /\ RATE_LIMIT \notin trace[n].err.phrases
        /\ \/ result = Return(Bool(TRUE))
           \/ result = Return(Bool(FALSE))
           \/ result.kind = "raise"

C7_Witness ==
    /\ Returned("create_table")
    /\ result = Return(Bool(TRUE))
    /\ Len(trace) = 5
    /\ Len(sleeps) = 4

\* C8: create_table and delete_table follow the state machine Attempting(n),
\* Succeeded, FatalFailure, ExhaustedRetries, n being the number of the attempt
\* in progress (the loop counter plus one): Attempting(n) goes to
\* Attempting(n + 1) on a transient error while n < 5, after a backoff sleep;
\* ExhaustedRetries is entered from Attempting(5) on a further transient error;
\* the other three states are left only by a new call.
RetryOps == {"create_table", "delete_table"}
Attempting(n) == [s |-> "Attempting", n |-> n]
Terminal(name) == [s |-> name, n |-> 0]

MachineState ==
    IF call.op \notin RetryOps THEN Terminal("none")
    ELSE IF pc # "idle" THEN Attempting(try_count + 1)
    ELSE IF trace[Len(trace)] = Succeeded THEN Terminal("Succeeded")
    ELSE IF result.kind = "raise" THEN Terminal("FatalFailure")
    ELSE Terminal("ExhaustedRetries")

TransientFor(op, o) ==
    \/ op = "create_table" /\ Carries(o, RATE_LIMIT)
    \/ op = "delete_table" /\ Carries(o, QUOTA)

MachineStep ==
    LET a == MachineState
        b == MachineState'
        slept == Len(sleeps') = Len(sleeps) + 1
    IN  \/ a = b /\ sleeps' = sleeps
        \/ pc = "idle" /\ b = Attempting(1) /\ trace' = << >> /\ sleeps' = << >>
        \/ /\ a.s = "Attempting" /\ b = Terminal("Succeeded")
           /\ trace' = Append(trace, Succeeded) /\ sleeps' = sleeps
        \/ /\ a.s = "Attempting" /\ b = Terminal("FatalFailure")
           /\ Len(trace') = Len(trace) + 1
           /\ FatalFor(call.op, trace'[Len(trace')])
           /\ sleeps' = sleeps
        \/ /\ a.s = "Attempting" /\ a.n < 5 /\ b = Attempting(a.n + 1)
           /\ slept /\ trace' = trace
           /\ TransientFor(call.op, trace[Len(trace)])
        \/ /\ a = Attempting(5) /\ b = Terminal("ExhaustedRetries")
           /\ slept /\ trace' = trace
           /\ TransientFor(call.op, trace[Len(trace)])

C8_StateMachine == [][call'.op \in RetryOps => MachineStep]_vars

C8_Witness ==
    /\ Returned("delete_table")
    /\ MachineState = Terminal("ExhaustedRetries")
    /\ try_count = 5
    /\ Len(trace) = 5

\* C9 as stated: every create_table call, earlier calls on the facade or not,
\* issues its create_all request with a definition of '{dataset}.{tableId}'
\* that has exactly the schema's columns in the schema's order, and returns
\* True when the backend raises nothing.
C9_RequestIsSchema ==
    (InCall("create_table") /\ Len(trace) >= 1) =>
        /\ table_name(call.table) \in DOMAIN request
        /\ Len(request[table_name(call.table)]) = Len(call.schema)
        /\ request[table_name(call.table)] = call.schema
        /\ trace = <<Succeeded>> => result = Return(Bool(TRUE))

\* C10: delete_table returns None both when the drop succeeded and when 5
\* quota-limited attempts were exhausted; the success message is printed once,
\* and only when a drop attempt succeeded; on exhaustion only debug lines are
\* written (one per retry and one for giving up).
LastOutcome == trace[Len(trace)]

C10_DeleteSilent ==
    InCall("delete_table") =>
        /\ stdout # << >> <=> trace # << >> /\ LastOutcome = Succeeded
        /\ stdout # << >> => stdout = << <<"deleted", table_name(call.table)>> >>
        /\ (pc = "idle" /\ result.kind = "return") =>
              /\ result = Return(None)
              /\ IsError(LastOutcome) =>
                    Len(trace) = 5 /\ stdout = << >> /\ logs = 5 + 1

C10_Witness ==
    /\ Returned("delete_table")
    /\ result = Return(None)
    /\ IsError(LastOutcome)
    /\ stdout = << >>

\* C11: after create_table returned True for t, the table '{dataset}.t' exists
\* in the dataset and is registered; it stays so through every later step but a
\* drop by delete_table(t); and get_table(t) on such a table returns a table
\* handle, not None.
UsableIn(md, wh, name) == name \in DOMAIN wh /\ name \in DOMAIN md
Usable(name) == UsableIn(metadata, warehouse, name)

C11_CreatedStep ==
    /\ (call'.op = "create_table" /\ pc # "idle" /\ pc' = "idle"
          /\ result' = Return(Bool(TRUE))) =>
            UsableIn(metadata', warehouse', table_name(call'.table))
    /\ \A name \in TableNames :
          (Usable(name) /\ ~UsableIn(metadata', warehouse', name)) =>
              /\ pc = "drop_execute"
              /\ call.op = "delete_table"
              /\ table_name(call.table) = name
    /\ (pc = "idle" /\ call'.op = "get_table"
          /\ Usable(table_name(call'.table))) =>
            /\ pc' = "idle"
            /\ result'.kind = "return"
            /\ result'.value.type = "Table"
            /\ result'.value.name = table_name(call'.table)

C11_CreatedTableUsable == [][C11_CreatedStep]_vars

C11_Witness ==
    /\ Returned("get_table")
    /\ call.table = "u"
    /\ Usable(table_name("u"))
    /\ result.value.type = "Table"

\* C12: the time_partitioning_field argument of create_table is inert: a facade
\* given the same calls with the other value of the argument holds the same
\* table definitions, so every create_all request is the one it would issue;
\* attempts, sleeps and outcome follow from the request's outcomes alone.
C12_PartitionFieldInert ==
    /\ twin = metadata
    /\ (InCall("create_table") /\ Len(trace) >= 1) =>
          request = CreateAllRequest(twin)

C12_Witness ==
    /\ Returned("create_table")
    /\ call.tpf = "ts"
    /\ call.schema = <<"b", "a">>
    /\ result = Return(Bool(TRUE))
    /\ twin[table_name(call.table)] = <<"b", "a">>

\* C13 as stated: on success execute_query returns a frame holding exactly the
\* rows the backend returned, in the backend's row order, under exactly the
\* backend's column names in their order, after all rows were read and the
\* connection was released.
C13_ExactRows ==
    (Returned("execute_query") /\ result.kind = "return") =>
        /\ result.value.type = "DataFrame"
        /\ result.value.columns = fetched.keys
        /\ result.value.rows = fetched.rows
        /\ trace = <<Succeeded>> /\ executes = 1
        /\ conns = 0

\* C13, amended: the frame holds one row per backend row, in the backend's
\* order, under the backend's column names in their order; each value is the
\* backend's, except that in a column holding numbers and NULLs the NULLs are
\* stored as NaN and the integers as floats.
Stored(x, y) ==
    \/ y = x
    \/ x = Null /\ y = NaN
    \/ x.t = "int" /\ y = Real(x.v)

C13_QueryResult ==
    (Returned("execute_query") /\ result.kind = "return") =>
        /\ result.value.type = "DataFrame"
        /\ result.value.columns = fetched.keys
        /\ Len(result.value.rows) = Len(fetched.rows)
        /\ \A i \in DOMAIN fetched.rows :
              /\ Len(result.value.rows[i]) = Len(fetched.rows[i])
              /\ \A j \in DOMAIN fetched.rows[i] :
                    Stored(fetched.rows[i][j], result.value.rows[i][j])
        /\ \A i \in DOMAIN fetched.rows : \A j \in DOMAIN fetched.rows[i] :
              result.value.rows[i][j] # fetched.rows[i][j] =>
                 \E k \in DOMAIN fetched.rows : fetched.rows[k][j] = Null
        /\ trace = <<Succeeded>> /\ executes = 1
        /\ conns = 0

C13_Witness ==
    /\ Returned("execute_query")
    /\ result.kind = "return"
    /\ Len(fetched.rows) = 2
    /\ result.value.rows[2][2] = NaN
    /\ result.value.rows[1][1] = Integer(2)

\* C14: the transient classes of the two retry operations are separate:
\* create_table retries an error exactly when it carries the rate-limit phrase
\* and re-raises at once one that carries only the quota phrase; delete_table
\* retries an error exactly when it carries the quota phrase and re-raises at
\* once one that carries only the rate-limit phrase.
Retried(i) ==
    \/ i < Len(trace)
    \/ pc \in {"create_sleep", "drop_sleep"}
    \/ Len(sleeps) >= i

ReraisedAtOnce(i) ==
    /\ i = Len(trace)
    /\ pc = "idle"
    /\ result = Raise(trace[i].err)
    /\ Len(sleeps) = i - 1

C14_SeparateTransientClasses ==
    \A i \in DOMAIN trace :
        IsError(trace[i]) =>
            /\ InCall("create_table") =>
                  /\ Retried(i) <=> Carries(trace[i], RATE_LIMIT)
                  /\ trace[i].err.phrases = {QUOTA} => ReraisedAtOnce(i)
            /\ InCall("delete_table") =>
                  /\ Retried(i) <=> Carries(trace[i], QUOTA)
                  /\ trace[i].err.phrases = {RATE_LIMIT} => ReraisedAtOnce(i)

C14_Witness ==
    /\ Returned("create_table")
    /\ Len(trace) = 2
    /\ Carries(trace[1], RATE_LIMIT)
    /\ trace[2].status = "error"
    /\ trace[2].err.phrases = {QUOTA}
    /\ result = Raise(trace[2].err)
    /\ Len(sleeps) = 1

\* C15: every create_table and delete_table call ends in a terminal outcome
\* after at most 5 attempts and at most 5 sleeps, provided every backend call
\* and every sleep returns; the attempt counter only increases, by 1 per
\* transient failure, and never exceeds 5; the sleeps performed are as many as
\* the transient failures seen, so on exhaustion a sleep follows the fifth
\* failure and no attempt follows it.
Sleeping == pc \in {"create_sleep", "drop_sleep"}
TransientFailures ==
    Cardinality({i \in DOMAIN trace : TransientFor(call.op, trace[i])})
SleepsDue == TransientFailures - (IF Sleeping THEN 1 ELSE 0)

BoundedRetries ==
    call.op \in RetryOps =>
        /\ Len(trace) <= 5
        /\ Len(sleeps) <= 5
        /\ try_count <= 5
        /\ try_count = SleepsDue
        /\ Len(sleeps) = SleepsDue
        /\ (pc = "idle" /\ TransientFailures = 5) =>
              /\ Len(sleeps) = 5
              /\ Len(trace) = 5
              /\ TransientFor(call.op, trace[5])
              /\ result \in {Return(Bool(FALSE)), Return(None)}

CounterStep ==
    \/ try_count' = try_count
    \/ /\ try_count' = try_count + 1
       /\ Sleeping
       /\ TransientFor(call.op, LastOutcome)
       /\ Len(sleeps') = Len(sleeps) + 1
    \/ pc = "idle" /\ try_count' = 0

Ended ==
    /\ pc = "idle"
    /\ result.kind # "none"
    /\ MachineState \in {Terminal("Succeeded"), Terminal("FatalFailure"),
                         Terminal("ExhaustedRetries")}

C15_RetryTerminates ==
    /\ []BoundedRetries
    /\ [][CounterStep]_vars
    /\ (call.op \in RetryOps /\ pc # "idle") ~> Ended

C15_Witness ==
    /\ Returned("delete_table")
    /\ TransientFailures = 5
    /\ try_count = 5
    /\ Len(sleeps) = 5
    /\ Len(trace) = 5
    /\ result = Return(None)

\* C16: the set of table definitions registered in the catalog only grows:
\* create_table registers its definition once, before the first attempt, and
\* the definition stays registered when the call returns False or raises;
\* delete_table removes none; every create-all request covers all definitions
\* registered so far, those left over from earlier failed calls included.
Grows(md, md2) ==
    /\ DOMAIN md \subseteq DOMAIN md2
    /\ \A n \in DOMAIN md : Range(md[n]) \subseteq Range(md2[n])

C16_CatalogStep ==
    /\ Grows(metadata, metadata')
    /\ (pc = "idle" /\ call'.op = "create_table") =>
          /\ table_name(call'.table) \in DOMAIN metadata'
          /\ trace' = << >>
          /\ pc' = "create_all"
    /\ (InCall("create_table") /\ pc # "idle") =>
          /\ metadata' = metadata
          /\ table_name(call.table) \in DOMAIN metadata'
    /\ ((InCall("delete_table") /\ pc # "idle") \/ call'.op = "delete_table") =>
          metadata' = metadata
    /\ pc = "create_all" =>
          /\ request' = metadata
          /\ DOMAIN metadata \subseteq DOMAIN request'

C16_CatalogOnlyGrows == [][C16_CatalogStep]_vars

C16_Witness ==
    /\ InCall("create_table")
    /\ call.table = "u"
    /\ Len(trace) >= 1
    /\ table_name("t") \in DOMAIN request
    /\ table_name("t") \notin DOMAIN warehouse
    /\ warehouse = NoTables
    /\ result.kind = "raise"

\* C17: delete_table acquires a fresh connection for each attempt and releases
\* it before the error is classified: none is held while an attempt has not yet
\* connected, during a backoff sleep, or when the call has re-raised, given up
\* or returned.
DeleteHolds ==
    InCall("delete_table") =>
        /\ pc = "drop_connect" => conns = 0
        /\ pc = "drop_execute" => conns = 1
        /\ pc = "drop_sleep" => conns = 0 /\ IsError(LastOutcome)
        /\ pc = "idle" => conns = 0

DeleteConnectionStep ==
    (InCall("delete_table") /\ call' = call) =>
        /\ conns' > conns =>
              /\ pc = "drop_connect" /\ pc' = "drop_execute"
              /\ conns = 0 /\ conns' = 1
              /\ Len(trace) = Len(sleeps)
        /\ Len(trace') > Len(trace) => conns' = 0
        /\ Len(sleeps') > Len(sleeps) => conns = 0 /\ conns' = 0

C17_DeleteConnectionPerAttempt ==
    /\ []DeleteHolds
    /\ [][DeleteConnectionStep]_vars

C17_Witness ==
    /\ InCall("delete_table")
    /\ pc = "drop_sleep"
    /\ executes = 2
    /\ Len(trace) = 2
    /\ Len(sleeps) = 1
    /\ conns = 0

====
